---- MODULE Spec2Model ----
(***************************************************************************)
(* A model of sanity-io/litter: the reachability scanner of mapper.go and  *)
(* the recursive renderer of dump.go, as one explicit call stack.          *)
(*                                                                         *)
(* The input of a call is a heap of Go values.  The Go declarations the    *)
(* heap stands for are                                                     *)
(*     type T struct { A, B <any>; }    objects "t1", "t2"                 *)
(*     []interface{}                    backing array (heap kind "array")  *)
(*     map[K]V                          (heap kind "map")                  *)
(*     *X                               storage of an X (heap kind "cell") *)
(* Text is a sequence of one-character strings, so that the byte-wise      *)
(* comparison of mapKeySorter.Less can be computed.                        *)
(***************************************************************************)
EXTENDS Integers, Sequences, FiniteSets, TLC

VARIABLES
    heap,      \* the input value graph: address -> object
    fields,    \* the declared fields of struct type T (reflect.StructField)
    args,      \* the arguments of the Dump or Sdump call
    entry,     \* which of Dump and Sdump the caller's i-th call is
    failAt,    \* the Write call at which standard output fails (0: never)
    dumper,    \* the type that has a LitterDump method ("none": no type)
    custom,    \* the text a custom dump hook writes to its buffer
    opts,      \* the Options the call is made on
    stack,     \* the Go call stack, innermost frame last
    sess,      \* the live dumpState objects, innermost last
    scans,     \* the live pointerVisitor objects, innermost last
    ret,       \* the value returned by the frame that was popped last
    buf,       \* Options.Sdump's bytes.Buffer; for Dump, what os.Stdout received
    sink,      \* the writer of the call: its Write calls so far and whether one failed
    results,   \* the strings the Sdump calls made so far returned (Dump: wrote)
    status,    \* "idle" between calls, "run" inside one
    calls,     \* the number of times the caller makes the same Sdump call
    finished   \* the dumpStates of the top-level call, after state.dump returned

vars ==
    <<heap, fields, args, opts, calls, entry, failAt, dumper, custom,
      stack, sess, scans, ret, buf, sink, results, status, finished>>

input == <<heap, fields, args, opts, calls, entry, failAt, dumper, custom>>

-----------------------------------------------------------------------------
(* Bounds of the model.                                                    *)

MaxLen == 2
MaxRefs == 3
MaxArgs == 2
NumCalls == 2
FilterRefs == 1
MaxStack == 36
MaxFail == 4

-----------------------------------------------------------------------------
(* Text.                                                                   *)

Alphabet ==
    << "\n", " ", "!", "&", "(", ")", "*", ",", "/", "0", "1", "2", "3", "4", "5",
       "6", "7", "8", "9", ":", "<", ">", "A", "B", "I", "M", "T", "X", "[", "]",
       "_", "a", "b", "d", "i", "l", "n", "p", "t", "v", "x", "y", "{", "}" >>

Rank(c) == CHOOSE i \in 1..Len(Alphabet) : Alphabet[i] = c

RECURSIVE LexLess(_, _)
LexLess(s, t) ==
    IF t = <<>> THEN FALSE
    ELSE IF s = <<>> THEN TRUE
    ELSE IF Head(s) = Head(t) THEN LexLess(Tail(s), Tail(t))
    ELSE Rank(Head(s)) < Rank(Head(t))

Digit(d) == SubSeq(<<"0", "1", "2", "3", "4", "5", "6", "7", "8", "9">>, d + 1, d + 1)

RECURSIVE FormatInt(_)
FormatInt(n) == IF n < 10 THEN Digit(n) ELSE FormatInt(n \div 10) \o Digit(n % 10)

RECURSIVE Repeat(_, _)
Repeat(s, n) == IF n <= 0 THEN <<>> ELSE s \o Repeat(s, n - 1)

-----------------------------------------------------------------------------
(* Values (reflect.Value) over the heap.                                   *)

NoAddr == "0"
Addr == {"t1", "t2", "k"}

NilV == [k |-> "nil", a |-> NoAddr, n |-> 0, ifc |-> FALSE]
IntV(n) == [k |-> "int", a |-> NoAddr, n |-> n, ifc |-> FALSE]
RefV(a) == [k |-> "ref", a |-> a, n |-> 0, ifc |-> FALSE]
StructV(a) == [k |-> "struct", a |-> a, n |-> 0, ifc |-> FALSE]
InvalidV == [k |-> "invalid", a |-> NoAddr, n |-> 0, ifc |-> FALSE]

Kind(v) ==
    IF v.ifc THEN "Interface"
    ELSE CASE v.k = "invalid" -> "Invalid"
           [] v.k = "nil" -> "Ptr"
           [] v.k = "int" -> "Int"
           [] v.k = "struct" -> "Struct"
           [] v.k = "ref" ->
                CASE heap[v.a].kind = "array" -> "Slice"
                  [] heap[v.a].kind = "map" -> "Map"
                  [] OTHER -> "Ptr"

IsNil(v) == v.k = "nil"

(* v.Elem() of an interface or of a pointer. *)
Elem(v) ==
    IF v.ifc THEN (IF v.k = "nil" THEN InvalidV ELSE [v EXCEPT !.ifc = FALSE])
    ELSE IF v.k = "nil" THEN InvalidV
    ELSE IF heap[v.a].kind = "struct" THEN StructV(v.a)
    ELSE heap[v.a].items[1]

Len_(v) == Len(heap[v.a].items)
NumField(v) == Len(heap[v.a].items)
Field(v, i) == heap[v.a].items[i]
Index(v, i) == [heap[v.a].items[i] EXCEPT !.ifc = TRUE]
MapIndex(v, key) ==
    LET i == CHOOSE j \in 1..Len(heap[v.a].keys) : heap[v.a].keys[j] = key
    IN  heap[v.a].items[i]

(* v.Pointer(): the address of the storage a reference value refers to. *)
Pointer(v) == IF v.k = "ref" /\ ~v.ifc THEN v.a ELSE NoAddr

isPointerValue(v) == Kind(v) \in {"Map", "Ptr", "Slice"}

deInterface(v) == IF Kind(v) = "Interface" /\ ~IsNil(v) THEN Elem(v) ELSE v

isZeroValue(v) == v.k = "nil" \/ v.k = "invalid" \/ (v.k = "int" /\ v.n = 0)

(* The type name v.Type().String() would give. *)
TypeName(v) ==
    CASE Kind(v) = "Struct" -> <<"T">>
      [] Kind(v) = "Slice" -> <<"[", "]", "I">>
      [] Kind(v) = "Map" -> <<"M">>
      [] Kind(v) = "Int" -> <<"i", "n", "t">>
      [] OTHER -> <<"*", "T">>

Perms(s) ==
    {p \in [1..Len(s) -> 1..Len(s)] : \A i, j \in 1..Len(s) : p[i] = p[j] => i = j}

(* v.MapKeys(): the keys in an order the runtime chooses. *)
MapKeys(v) == {[i \in 1..Len(heap[v.a].keys) |-> heap[v.a].keys[p[i]]] : p \in Perms(heap[v.a].keys)}

-----------------------------------------------------------------------------
(* Options.                                                                *)

(* var Config: the default options. *)
Config ==
    [Compact |-> FALSE, HidePrivateFields |-> TRUE, HideZeroValues |-> FALSE,
     FieldExclusions |-> TRUE, FieldFilter |-> "nil", Separator |-> <<" ">>,
     DisablePointerReplacement |-> FALSE, DumpFunc |-> "nil"]

(* The DumpFunc callbacks the model passes: each writes an exclamation     *)
(* mark and the custom text to its buffer, whatever the value is, and      *)
(* returns true for the values of one kind.                                *)
DumpFunc(name, v) ==
    [ok |-> CASE name = "int" -> Kind(v) = "Int"
              [] name = "ptr" -> Kind(v) = "Ptr" /\ ~IsNil(v)
              [] OTHER -> FALSE,
     out |-> <<"!">> \o custom]

(* v.Type().Implements(dumperType) *)
Implements(v) == dumper = "*T" /\ v.k = "ref" /\ ~v.ifc /\ heap[v.a].kind = "struct"

(* What the LitterDump method of v writes to its buffer. *)
LitterDump(v) == custom

(* FieldExclusions.MatchString(name): the default pattern matches the names that start with XXX_ *)
MatchString(name) == Len(name) >= 4 /\ SubSeq(name, 1, 4) = <<"X", "X", "X", "_">>

(* reflect.StructField.PkgPath is empty for the exported names, which     *)
(* start with an upper-case letter.                                        *)
PkgPath(name) == IF Head(name) \in {"A", "B", "X"} THEN "" ELSE "main"

(* The FieldFilter callbacks the model passes: keep a field by its position. *)
FieldFilter(name, i, v) ==
    CASE name = "first" -> i = 1
      [] name = "none" -> FALSE
      [] OTHER -> TRUE

-----------------------------------------------------------------------------
(* The call stack.                                                         *)

Top == stack[Len(stack)]
Pop == SubSeq(stack, 1, Len(stack) - 1)
Goto(f) == [stack EXCEPT ![Len(stack)] = f]
Call(f, g) == Append(Goto(f), g)
CanCall == Len(stack) < MaxStack

S == sess[Len(sess)]

(* A write of the innermost dumpState failed: the panic of dumpState.write *)
(* is unwinding the stack and no frame runs any further.                   *)
Panicking == sess # <<>> /\ S.sink.failed

Running(op) == status = "run" /\ stack # <<>> /\ Top.op = op /\ ~Panicking

SetS(s) == [sess EXCEPT ![Len(sess)] = s]
PopS == SubSeq(sess, 1, Len(sess) - 1)

NoRet == [t |-> "none"]
Returned(t, v) == [t |-> t, v |-> v]

considerFrame(v) == [op |-> "consider", v |-> v, pc |-> "enter", kids |-> <<>>, i |-> 1]
(* texts is history: the text Less rendered for the key at each position. *)
sortFrame(keys, cfg) ==
    [op |-> "sort", keys |-> keys, i |-> 2, j |-> 2, cfg |-> cfg, pc |-> "loop",
     texts |-> [i \in 1..Len(keys) |-> <<>>]]
lessFrame(x, y, cfg) == [op |-> "Less", x |-> x, y |-> y, cfg |-> cfg, pc |-> "i", ibuf |-> <<>>]
(* sep: the caller writes the separator with state.write before state.dump. *)
newDumpStateFrame(v, cfg, top) ==
    [op |-> "newDumpState", v |-> v, cfg |-> cfg, top |-> top, pc |-> "scan", sep |-> FALSE]
dumpValFrame(v) == [op |-> "dumpVal", v |-> v]
descendFrame(v, f) == [op |-> "descend", v |-> v, f |-> f, pc |-> "enter"]
bodyFrame(v, f) ==
    [op |-> f, v |-> v, pc |-> "start", i |-> 1, keys |-> <<>>, preambleDumped |-> FALSE,
     emitted |-> <<>>, w0 |-> 0, texts |-> <<>>]

-----------------------------------------------------------------------------
(* mapper.go: the reachability scanner.                                    *)

pointerVisitor == [pointers |-> {}, reusedPointers |-> {}]

(* A visitor at work: next to its two maps, history of the scan: the value *)
(* it was started on, the dumpStates that were live then, and for every    *)
(* identity how often consider met it and how often it went on to its      *)
(* children.                                                               *)
Scan(v) ==
    [pointers |-> pointerVisitor.pointers, reusedPointers |-> pointerVisitor.reusedPointers,
     root |-> v, state0 |-> sess,
     visits |-> [a \in Addr |-> 0], descents |-> [a \in Addr |-> 0]]

PV == scans[Len(scans)]

(* A scanner that takes the first sight of a pointer for a reuse. *)
addPointerReusedAtFirstSight(pm, ptr) ==
    [pm |-> [pm EXCEPT !.pointers = @ \cup {ptr}, !.reusedPointers = @ \cup {ptr}],
     r |-> ptr \in pm.pointers]

(* Returns the visitor after the call and the call's result. *)
addPointerReturnTrueIfWasReused(pm, ptr) ==
    IF ptr \in pm.reusedPointers
    THEN [pm |-> pm, r |-> TRUE]
    ELSE IF ptr \in pm.pointers
    THEN [pm |-> [pm EXCEPT !.reusedPointers = @ \cup {ptr}], r |-> TRUE]
    ELSE [pm |-> [pm EXCEPT !.pointers = @ \cup {ptr}], r |-> FALSE]

(* consider, from its entry to the switch on v.Kind(). *)
Consider ==
    /\ Running("consider") /\ Top.pc = "enter"
    /\ LET v == Top.v
           res == IF Kind(v) # "Invalid" /\ isPointerValue(v) /\ Pointer(v) # NoAddr
                  THEN addPointerReturnTrueIfWasReused(PV, Pointer(v))
                  ELSE [pm |-> PV, r |-> FALSE]
           loop(kids) == stack' = Goto([Top EXCEPT !.pc = "kids", !.kids = kids])
           met == Kind(v) # "Invalid" /\ isPointerValue(v) /\ Pointer(v) # NoAddr
           pm == IF met
                 THEN [res.pm EXCEPT !.visits[Pointer(v)] = @ + 1,
                                     !.descents[Pointer(v)] = IF res.r THEN @ ELSE @ + 1]
                 ELSE res.pm
       IN  /\ scans' = [scans EXCEPT ![Len(scans)] = pm]
           /\ IF Kind(v) = "Invalid" \/ res.r
              THEN stack' = Pop
              ELSE CASE Kind(v) = "Slice" -> loop([i \in 1..Len_(v) |-> Index(v, i)])
                     [] Kind(v) = "Interface" -> loop(<<Elem(v)>>)
                     [] Kind(v) = "Ptr" -> loop(<<Elem(v)>>)
                     [] Kind(v) = "Map" ->
                            /\ CanCall
                            /\ \E keys \in MapKeys(v) :
                                  stack' = Call([Top EXCEPT !.pc = "sorted"], sortFrame(keys, Config))
                     [] Kind(v) = "Struct" -> loop([i \in 1..NumField(v) |-> Field(v, i)])
                     [] OTHER -> stack' = Pop
    /\ UNCHANGED <<input, sess, ret, buf, sink, results, status, finished>>

(* A Map case that considers the value of the first key only. *)
ConsiderMapFirstOnly ==
    /\ Running("consider") /\ Top.pc = "sorted"
    /\ stack' = Goto([Top EXCEPT !.pc = "kids", !.kids = <<MapIndex(Top.v, ret.v[1])>>])
    /\ ret' = NoRet
    /\ UNCHANGED <<input, sess, scans, buf, sink, results, status, finished>>

(* consider, case reflect.Map, after sort.Sort returned. *)
ConsiderMap ==
    /\ Running("consider") /\ Top.pc = "sorted"
    /\ stack' = Goto([Top EXCEPT !.pc = "kids",
                                 !.kids = [i \in 1..Len(ret.v) |-> MapIndex(Top.v, ret.v[i])]])
    /\ ret' = NoRet
    /\ UNCHANGED <<input, sess, scans, buf, sink, results, status, finished>>

(* consider: the loops over the children, one recursive call each. *)
ConsiderChild ==
    /\ Running("consider") /\ Top.pc = "kids"
    /\ IF Top.i <= Len(Top.kids)
       THEN /\ CanCall
            /\ stack' = Call([Top EXCEPT !.i = @ + 1], considerFrame(Top.kids[Top.i]))
       ELSE stack' = Pop
    /\ UNCHANGED <<input, sess, scans, ret, buf, sink, results, status, finished>>

-----------------------------------------------------------------------------
(* sort.Sort over a mapKeySorter: for the lengths of the model, the        *)
(* insertion sort of the standard library.                                 *)

(* A sorter whose Swap leaves the keys where they are. *)
SwapNothing(keys, i, j) == keys

Swap(keys, i, j) == [keys EXCEPT ![i] = keys[j], ![j] = keys[i]]

Sort ==
    /\ Running("sort")
    /\ LET f == Top
           n == Len(f.keys)
       IN  CASE f.pc = "loop" /\ f.i > n ->
                    /\ ret' = [t |-> "keys", v |-> f.keys, texts |-> f.texts]
                    /\ stack' = Pop
             [] f.pc = "loop" /\ f.i <= n /\ f.j > 1 ->
                    /\ CanCall
                    /\ stack' = Call([f EXCEPT !.pc = "cmp"],
                                     lessFrame(f.keys[f.j], f.keys[f.j - 1], f.cfg))
                    /\ UNCHANGED ret
             [] f.pc = "loop" /\ f.i <= n /\ f.j <= 1 ->
                    /\ stack' = Goto([f EXCEPT !.i = f.i + 1, !.j = f.i + 1])
                    /\ UNCHANGED ret
             [] f.pc = "cmp" ->
                    /\ ret' = NoRet
                    /\ LET g == [f EXCEPT !.texts[f.j] = ret.x, !.texts[f.j - 1] = ret.y]
                       IN  IF ret.v
                           THEN stack' = Goto([g EXCEPT !.keys = Swap(g.keys, f.j, f.j - 1),
                                                        !.texts = Swap(g.texts, f.j, f.j - 1),
                                                        !.j = f.j - 1, !.pc = "loop"])
                           ELSE stack' = Goto([g EXCEPT !.i = f.i + 1, !.j = f.i + 1, !.pc = "loop"])
    /\ UNCHANGED <<input, sess, scans, buf, sink, results, status, finished>>

(* mapKeySorter.Less: both keys are dumped by a dumpState of their own. *)
Less ==
    /\ Running("Less")
    /\ CASE Top.pc = "i" ->
                /\ CanCall
                /\ stack' = Call([Top EXCEPT !.pc = "j"], newDumpStateFrame(Top.x, Top.cfg, FALSE))
                /\ UNCHANGED ret
         [] Top.pc = "j" ->
                /\ CanCall
                /\ stack' = Call([Top EXCEPT !.pc = "lt", !.ibuf = ret.v],
                                 newDumpStateFrame(Top.y, Top.cfg, FALSE))
                /\ ret' = NoRet
         [] Top.pc = "lt" ->
                /\ ret' = [t |-> "bool", v |-> LexLess(Top.ibuf, ret.v), x |-> Top.ibuf, y |-> ret.v]
                /\ stack' = Pop
    /\ UNCHANGED <<input, sess, scans, buf, sink, results, status, finished>>

-----------------------------------------------------------------------------
(* dump.go: dumpState and its helpers.                                     *)

(* A writer that never fails: a bytes.Buffer. *)
NoSink == [failAt |-> 0, n |-> 0, failed |-> FALSE]

(* os.Stdout, which fails at the Write call the input names. *)
Stdout == [failAt |-> failAt, n |-> 0, failed |-> FALSE]

(* w is the text the writer holds and sink its state.  root, start and ev  *)
(* are history: the value the state was made for, the length of w when     *)
(* state.dump was called, and what the gate, the label comments, the hooks *)
(* and dumpStruct did so far.                                              *)
dumpState(cfg, pointers, w, root) ==
    [w |-> w, sink |-> NoSink, depth |-> 0, config |-> cfg, pointers |-> pointers,
     visitedPointers |-> {}, parentPointers |-> {}, currentPointer |-> NoAddr,
     labels |-> [a \in Addr |-> -1], count |-> 0, root |-> root, start |-> Len(w),
     ev |-> <<>>]

(* s.w.Write(b), and panic(err) if it fails: after the panic nothing more  *)
(* of the handler runs, so a state that has failed stays as it is.         *)
write(s, b) ==
    IF s.sink.failed THEN s
    ELSE IF s.sink.n + 1 = s.sink.failAt
    THEN [s EXCEPT !.sink.n = @ + 1, !.sink.failed = TRUE]
    ELSE [s EXCEPT !.w = @ \o b, !.sink.n = @ + 1]

indent(s) == IF s.config.Compact THEN s ELSE write(s, Repeat(<<" ", " ">>, s.depth))

printNil(s) == write(s, <<"n", "i", "l">>)

dumpType(s, v) == write(s, TypeName(v))

(* The label registry: the label of a reused identity is allocated, in     *)
(* sequence, the first time the registry is asked for it.                  *)
labelFor(s, a) ==
    IF s.labels[a] = -1
    THEN [s EXCEPT !.labels[a] = s.count, !.count = @ + 1]
    ELSE s

label(s, a) == <<"p">> \o FormatInt(s.labels[a])

(* The identities whose bodies the enclosing descendIntoPossiblePointer    *)
(* calls of the innermost dumpState are rendering.                         *)
StateBase ==
    LET I == {i \in 1..Len(stack) : stack[i].op = "newDumpState"}
    IN  IF I = {} THEN 0 ELSE CHOOSE i \in I : \A j \in I : j <= i

Ancestors ==
    {Pointer(stack[i].v) :
        i \in {j \in (StateBase + 1)..Len(stack) :
                  stack[j].op = "descend" /\ stack[j].pc = "defer" /\ isPointerValue(stack[j].v)}}

Record(s, e) == [s EXCEPT !.ev = Append(@, e)]

Event(s, t, a) ==
    Record(s, [t |-> t, a |-> a, id |-> IF a \in Addr THEN s.labels[a] ELSE -1,
               anc |-> a \in Ancestors, first |-> FALSE, lost |-> FALSE,
               emitted |-> <<>>, text |-> <<>>])

(* History of a pointerFor call of the gate: the label it returned (-1 for *)
(* none) and firstVisit.                                                   *)
QueryEvent(s, a, ptr, firstVisit) ==
    Record(s, [t |-> "query", a |-> a, id |-> IF ptr = NoAddr THEN -1 ELSE s.labels[ptr],
               anc |-> FALSE, first |-> firstVisit, lost |-> FALSE,
               emitted |-> <<>>, text |-> <<>>])

(* s.currentPointer = ptr; the history tells whether a label was pending. *)
SetCurrentPointer(s, ptr) ==
    [Record(s, [t |-> "pend", a |-> ptr, id |-> IF ptr = NoAddr THEN -1 ELSE s.labels[ptr],
                anc |-> FALSE, first |-> FALSE, lost |-> s.currentPointer # NoAddr,
                emitted |-> <<>>, text |-> <<>>])
        EXCEPT !.currentPointer = ptr]

MapEvent(s, f) ==
    Record(s, [t |-> "map", a |-> f.v.a, id |-> -1, anc |-> FALSE,
               first |-> FALSE, lost |-> FALSE, emitted |-> f.emitted, text |-> <<>>])

StructEvent(s, f) ==
    Record(s, [t |-> "struct", a |-> f.v.a, id |-> -1, anc |-> FALSE,
               first |-> FALSE, lost |-> FALSE, emitted |-> f.emitted, text |-> SubSeq(s.w, f.w0 + 1, Len(s.w))])

newlineWithPointerNameComment(s) ==
    IF s.currentPointer # NoAddr
    THEN LET ptr == s.currentPointer
             t == IF s.config.Compact
                  THEN write(s, <<"/", "*">> \o label(s, ptr) \o <<"*", "/">>)
                  ELSE write(s, <<" ", "/", "/", " ">> \o label(s, ptr) \o <<"\n">>)
         IN  [Event(t, "annot", ptr) EXCEPT !.currentPointer = NoAddr]
    ELSE IF ~s.config.Compact THEN write(s, <<"\n">>) ELSE s

(* ptrmap.add reports whether the key was new; ptrmap.remove deletes it. *)
ptrmapAdd(m, a) == [m |-> m \cup {a}, added |-> a \notin m]
ptrmapRemove(m, a) == m \ {a}

(* A pointerFor that does not record the visit. *)
pointerForForgetful(s, v) ==
    IF isPointerValue(v) /\ Pointer(v) \in s.pointers
    THEN [s |-> labelFor(s, Pointer(v)), ptr |-> Pointer(v),
          firstVisit |-> Pointer(v) \notin s.visitedPointers]
    ELSE [s |-> s, ptr |-> NoAddr, firstVisit |-> FALSE]

(* Returns the state after the call, the label's identity (NoAddr for nil) *)
(* and firstVisit.                                                         *)
pointerFor(s, v) ==
    IF isPointerValue(v) /\ Pointer(v) \in s.pointers
    THEN LET add == ptrmapAdd(s.visitedPointers, Pointer(v))
         IN  [s |-> labelFor([s EXCEPT !.visitedPointers = add.m], Pointer(v)),
              ptr |-> Pointer(v), firstVisit |-> add.added]
    ELSE [s |-> s, ptr |-> NoAddr, firstVisit |-> FALSE]

-----------------------------------------------------------------------------
(* newDumpState: the scan of the value, then the state.                    *)

MapReusedPointers ==
    /\ Running("newDumpState") /\ Top.pc = "scan"
    /\ CanCall
    /\ scans' = Append(scans, Scan(Top.v))
    /\ stack' = Call([Top EXCEPT !.pc = "state"], considerFrame(Top.v))
    /\ UNCHANGED <<input, sess, ret, buf, sink, results, status, finished>>

(* The writer the caller hands to newDumpState, and Dump's                 *)
(* state.write(o.Separator) between newDumpState and state.dump.           *)
Attach(s) ==
    LET t == [s EXCEPT !.sink = IF Top.top THEN sink ELSE NoSink]
        u == IF Top.sep THEN write(t, Top.cfg.Separator) ELSE t
    IN  [u EXCEPT !.start = Len(u.w)]

(* A state that keeps, from the earlier arguments of the call, the         *)
(* references it has rendered.                                             *)
NewDumpStateShared ==
    /\ Running("newDumpState") /\ Top.pc = "state"
    /\ CanCall
    /\ LET earlier == IF Top.top
                      THEN {Pointer(finished[i].root) : i \in 1..Len(finished)} \ {NoAddr}
                      ELSE {}
           s == dumpState(Top.cfg, PV.reusedPointers, IF Top.top THEN buf ELSE <<>>, Top.v)
       IN  sess' = Append(sess, Attach([s EXCEPT !.pointers = @ \cup earlier,
                                                !.visitedPointers = earlier]))
    /\ scans' = SubSeq(scans, 1, Len(scans) - 1)
    /\ stack' = Call([Top EXCEPT !.pc = "end"], dumpValFrame(Top.v))
    /\ UNCHANGED <<input, ret, buf, sink, results, status, finished>>

(* The state is made and dump (dumpVal, for a key) is called on it. *)
NewDumpState ==
    /\ Running("newDumpState") /\ Top.pc = "state"
    /\ CanCall
    /\ sess' = Append(sess, Attach(dumpState(Top.cfg, PV.reusedPointers,
                                              IF Top.top THEN buf ELSE <<>>, Top.v)))
    /\ scans' = SubSeq(scans, 1, Len(scans) - 1)
    /\ stack' = Call([Top EXCEPT !.pc = "end"], dumpValFrame(Top.v))
    /\ UNCHANGED <<input, ret, buf, sink, results, status, finished>>

(* dump (dumpVal) returned: the state is dropped, the writer keeps the text. *)
DumpReturn ==
    /\ Running("newDumpState") /\ Top.pc = "end"
    /\ stack' = Pop
    /\ sess' = PopS
    /\ IF Top.top
       THEN /\ buf' = S.w
            /\ sink' = S.sink
            /\ finished' = Append(finished, S)
            /\ UNCHANGED ret
       ELSE /\ ret' = Returned("text", S.w)
            /\ UNCHANGED <<buf, sink, finished>>
    /\ UNCHANGED <<input, scans, results, status>>

-----------------------------------------------------------------------------
(* dumpVal and descendIntoPossiblePointer.                                 *)

(* The index of the first newline of b, 0 if it has none. *)
IndexByte(b) ==
    IF \E i \in 1..Len(b) : b[i] = "\n"
    THEN CHOOSE i \in 1..Len(b) : b[i] = "\n" /\ \A j \in 1..(i - 1) : b[j] # "\n"
    ELSE 0

(* strings.TrimRight(line, " \n") *)
RECURSIVE TrimRight(_)
TrimRight(line) ==
    IF line # <<>> /\ line[Len(line)] \in {" ", "\n"}
    THEN TrimRight(SubSeq(line, 1, Len(line) - 1))
    ELSE line

(* The loop of dumpCustom over buf.ReadBytes: io.EOF comes with the rest   *)
(* of the buffer when no newline is left.                                  *)
RECURSIVE ReadLines(_, _, _)
ReadLines(s, b, firstLine) ==
    LET n == IndexByte(b)
        lineBytes == IF n = 0 THEN b ELSE SubSeq(b, 1, n)
        t == write(IF firstLine THEN s ELSE indent(s), TrimRight(lineBytes))
    IN  IF n = 0 THEN t
        ELSE ReadLines(newlineWithPointerNameComment(t), SubSeq(b, n + 1, Len(b)), FALSE)

dumpCustom(s, v, b) ==
    IF s.config.Compact
    THEN write(dumpType(s, v), b)
    ELSE ReadLines(dumpType(s, v), b, TRUE)

(* History of the hooks and of the kind switch of dumpVal.  For "func" the *)
(* record tells whether DumpFunc returned true; for the records of         *)
(* dumpCustom ("func" that returned true, "dumper") id is the depth,       *)
(* lost whether a label was pending, emitted the captured text and text    *)
(* what dumpCustom wrote.                                                  *)
HookEvent(s, t, v, ok, s0, b) ==
    Record(s, [t |-> t, a |-> v.a, id |-> s0.depth, anc |-> FALSE, first |-> ok,
               lost |-> s0.currentPointer # NoAddr, emitted |-> b,
               text |-> SubSeq(s.w, Len(s0.w) + 1, Len(s.w))])

(* A dumpVal that looks for the LitterDump method before it tries DumpFunc. *)
DumpValDumperFirst ==
    /\ Running("dumpVal")
    /\ LET value == Top.v
           v == deInterface(value)
           kind == Kind(v)
           called == S.config.DumpFunc # "nil"
           df == DumpFunc(S.config.DumpFunc, v)
           refused == IF called THEN HookEvent(S, "func", v, FALSE, S, <<>>) ELSE S
           switch == IF called THEN HookEvent(refused, "kind", v, FALSE, refused, <<>>) ELSE S
           leaf(s) == sess' = SetS(s) /\ stack' = Pop
           descend(f) == stack' = Goto(descendFrame(v, f)) /\ sess' = SetS(switch)
       IN  IF Kind(value) = "Ptr" /\ IsNil(value)
           THEN leaf(write(S, <<"n", "i", "l">>))
           ELSE IF Implements(v)
           THEN stack' = Goto(descendFrame(v, "dumpCustom")) /\ UNCHANGED sess
           ELSE IF called /\ df.ok
           THEN leaf(HookEvent(dumpCustom(S, v, df.out), "func", v, TRUE, S, df.out))
           ELSE CASE kind = "Invalid" ->
                        leaf(write(switch, <<"<", "i", "n", "v", "a", "l", "i", "d", ">">>))
                  [] kind = "Int" -> leaf(write(switch, FormatInt(v.n)))
                  [] kind = "Slice" -> descend("dumpSlice")
                  [] kind = "Interface" -> leaf(printNil(switch))
                  [] kind = "Ptr" -> descend("dumpPtr")
                  [] kind = "Map" -> descend("dumpMap")
                  [] kind = "Struct" ->
                        /\ stack' = Goto([bodyFrame(v, "dumpStruct") EXCEPT !.w0 = Len(S.w)])
                        /\ sess' = SetS(switch)
    /\ UNCHANGED <<input, scans, ret, buf, sink, results, status, finished>>

DumpVal ==
    /\ Running("dumpVal")
    /\ LET value == Top.v
           v == deInterface(value)
           kind == Kind(v)
           called == S.config.DumpFunc # "nil"
           df == DumpFunc(S.config.DumpFunc, v)
           refused == IF called THEN HookEvent(S, "func", v, FALSE, S, <<>>) ELSE S
           switch == IF called THEN HookEvent(refused, "kind", v, FALSE, refused, <<>>) ELSE S
           leaf(s) == sess' = SetS(s) /\ stack' = Pop
           descend(f) == stack' = Goto(descendFrame(v, f)) /\ sess' = SetS(switch)
       IN  IF Kind(value) = "Ptr" /\ IsNil(value)
           THEN leaf(write(S, <<"n", "i", "l">>))
           ELSE IF called /\ df.ok
           THEN leaf(HookEvent(dumpCustom(S, v, df.out), "func", v, TRUE, S, df.out))
           ELSE IF Implements(v)
           THEN stack' = Goto(descendFrame(v, "dumpCustom")) /\ sess' = SetS(refused)
           ELSE CASE kind = "Invalid" ->
                        leaf(write(switch, <<"<", "i", "n", "v", "a", "l", "i", "d", ">">>))
                  [] kind = "Int" -> leaf(write(switch, FormatInt(v.n)))
                  [] kind = "Slice" -> descend("dumpSlice")
                  [] kind = "Interface" -> leaf(printNil(switch))
                  [] kind = "Ptr" -> descend("dumpPtr")
                  [] kind = "Map" -> descend("dumpMap")
                  [] kind = "Struct" ->
                        /\ stack' = Goto([bodyFrame(v, "dumpStruct") EXCEPT !.w0 = Len(S.w)])
                        /\ sess' = SetS(switch)
    /\ UNCHANGED <<input, scans, ret, buf, sink, results, status, finished>>

DescendIntoPossiblePointer ==
    /\ Running("descend") /\ Top.pc = "enter"
    /\ LET value == Top.v
           isp == isPointerValue(value)
           p == Pointer(value)
           canonicalize ==
               ~(isp /\ S.config.DisablePointerReplacement /\ ptrmapAdd(S.parentPointers, p).added)
           s1 == IF isp THEN [S EXCEPT !.parentPointers = ptrmapAdd(@, p).m] ELSE S
           pf == pointerFor(s1, value)
           qs == IF isp THEN QueryEvent(pf.s, p, pf.ptr, pf.firstVisit) ELSE pf.s
           f(s) == /\ CanCall
                   /\ sess' = SetS(IF isp THEN Event(s, "body", p) ELSE s)
                   /\ stack' = Call([Top EXCEPT !.pc = "defer"], bodyFrame(value, Top.f))
       IN  IF ~canonicalize
           THEN f(SetCurrentPointer(qs, pf.ptr))
           ELSE IF pf.ptr = NoAddr
           THEN f(qs)
           ELSE IF pf.firstVisit
           THEN f(SetCurrentPointer(qs, pf.ptr))
           ELSE /\ sess' = SetS([Event(write(qs, label(qs, pf.ptr)), "bare", p)
                                    EXCEPT !.parentPointers = ptrmapRemove(@, p)])
                /\ stack' = Pop
    /\ UNCHANGED <<input, scans, ret, buf, sink, results, status, finished>>

(* A gate without the deferred parentPointers.remove. *)
DescendReturnKeepsParent ==
    /\ Running("descend") /\ Top.pc = "defer"
    /\ stack' = Pop
    /\ UNCHANGED <<input, sess, scans, ret, buf, sink, results, status, finished>>

(* f returned: the deferred parentPointers.remove runs. *)
DescendReturn ==
    /\ Running("descend") /\ Top.pc = "defer"
    /\ sess' = SetS(IF isPointerValue(Top.v)
                    THEN [S EXCEPT !.parentPointers = ptrmapRemove(@, Pointer(Top.v))]
                    ELSE S)
    /\ stack' = Pop
    /\ UNCHANGED <<input, scans, ret, buf, sink, results, status, finished>>

(* dumpVal, custom dumpers: the function handed to the gate calls the      *)
(* LitterDump method on a new buffer and then dumpCustom.                  *)
DumpCustom ==
    /\ Running("dumpCustom")
    /\ LET b == LitterDump(Top.v)
       IN  sess' = SetS(HookEvent(dumpCustom(S, Top.v, b), "dumper", Top.v, TRUE, S, b))
    /\ stack' = Pop
    /\ UNCHANGED <<input, scans, ret, buf, sink, results, status, finished>>

(* dumpVal, case reflect.Ptr: the function handed to the gate. *)
DumpPtr ==
    /\ Running("dumpPtr")
    /\ IF Top.pc = "start"
       THEN /\ CanCall
            /\ sess' = SetS(write(S, <<"&">>))
            /\ stack' = Call([Top EXCEPT !.pc = "end"], dumpValFrame(Elem(Top.v)))
       ELSE /\ stack' = Pop
            /\ UNCHANGED sess
    /\ UNCHANGED <<input, scans, ret, buf, sink, results, status, finished>>

-----------------------------------------------------------------------------
(* dumpSlice, dumpMap, dumpStruct.                                         *)

Comma(s, i, n) == IF ~s.config.Compact \/ i < n THEN write(s, <<",">>) ELSE s
Colon(s) == IF s.config.Compact THEN write(s, <<":">>) ELSE write(s, <<":", " ">>)
(* A closing brace without the s.depth-- before it. *)
CloseKeepsDepth(s) == write(indent(s), <<"}">>)

Close(s) == write(indent([s EXCEPT !.depth = @ - 1]), <<"}">>)
Open(s, v) == [newlineWithPointerNameComment(write(dumpType(s, v), <<"{">>)) EXCEPT !.depth = @ + 1]

DumpSlice ==
    /\ Running("dumpSlice")
    /\ LET v == Top.v
           numEntries == Len_(v)
       IN  CASE Top.pc = "start" /\ numEntries = 0 ->
                    /\ sess' = SetS(write(dumpType(S, v), <<"{", "}">>))
                    /\ stack' = Pop
             [] Top.pc = "start" /\ numEntries > 0 ->
                    /\ sess' = SetS(Open(S, v))
                    /\ stack' = Goto([Top EXCEPT !.pc = "loop"])
             [] Top.pc = "loop" /\ Top.i <= numEntries ->
                    /\ CanCall
                    /\ sess' = SetS(indent(S))
                    /\ stack' = Call([Top EXCEPT !.pc = "after"], dumpValFrame(Index(v, Top.i)))
             [] Top.pc = "loop" /\ Top.i > numEntries ->
                    /\ sess' = SetS(Close(S))
                    /\ stack' = Pop
             [] Top.pc = "after" ->
                    /\ sess' = SetS(newlineWithPointerNameComment(Comma(S, Top.i, numEntries)))
                    /\ stack' = Goto([Top EXCEPT !.pc = "loop", !.i = @ + 1])
    /\ UNCHANGED <<input, scans, ret, buf, sink, results, status, finished>>

DumpMap ==
    /\ Running("dumpMap")
    /\ LET v == Top.v
           numKeys == Len_(v)
       IN  CASE Top.pc = "start" /\ numKeys = 0 ->
                    /\ sess' = SetS(write(dumpType(S, v), <<"{", "}">>))
                    /\ stack' = Pop
                    /\ UNCHANGED ret
             [] Top.pc = "start" /\ numKeys > 0 ->
                    /\ CanCall
                    /\ sess' = SetS(Open(S, v))
                    /\ \E keys \in MapKeys(v) :
                          stack' = Call([Top EXCEPT !.pc = "sorted"], sortFrame(keys, S.config))
                    /\ UNCHANGED ret
             [] Top.pc = "sorted" ->
                    /\ stack' = Goto([Top EXCEPT !.pc = "loop", !.keys = ret.v, !.texts = ret.texts])
                    /\ ret' = NoRet
                    /\ UNCHANGED sess
             [] Top.pc = "loop" /\ Top.i <= numKeys ->
                    /\ CanCall
                    /\ sess' = SetS(indent(S))
                    /\ stack' = Call([Top EXCEPT !.pc = "colon", !.emitted = Append(@, Top.texts[Top.i])],
                                     dumpValFrame(Top.keys[Top.i]))
                    /\ UNCHANGED ret
             [] Top.pc = "colon" ->
                    /\ CanCall
                    /\ sess' = SetS(Colon(S))
                    /\ stack' = Call([Top EXCEPT !.pc = "after"],
                                     dumpValFrame(MapIndex(v, Top.keys[Top.i])))
                    /\ UNCHANGED ret
             [] Top.pc = "after" ->
                    /\ sess' = SetS(newlineWithPointerNameComment(Comma(S, Top.i, numKeys)))
                    /\ stack' = Goto([Top EXCEPT !.pc = "loop", !.i = @ + 1])
                    /\ UNCHANGED ret
             [] Top.pc = "loop" /\ Top.i > numKeys ->
                    /\ sess' = SetS(MapEvent(Close(S), Top))
                    /\ stack' = Pop
                    /\ UNCHANGED ret
    /\ UNCHANGED <<input, scans, buf, sink, results, status, finished>>

(* The skip conditions with the first one read as                          *)
(* HidePrivateFields && (PkgPath != "" || FieldExclusions != nil && match). *)
SkipFieldMisgrouped(cfg, v, i) ==
    \/ cfg.HidePrivateFields
          /\ (PkgPath(fields[i].name) # "" \/ (cfg.FieldExclusions /\ MatchString(fields[i].name)))
    \/ cfg.FieldFilter # "nil" /\ ~FieldFilter(cfg.FieldFilter, i, Field(v, i))
    \/ cfg.HideZeroValues /\ isZeroValue(Field(v, i))

(* The conditions under which dumpStruct skips field i. *)
SkipField(cfg, v, i) ==
    \/ cfg.HidePrivateFields /\ PkgPath(fields[i].name) # ""
    \/ cfg.FieldExclusions /\ MatchString(fields[i].name)
    \/ cfg.FieldFilter # "nil" /\ ~FieldFilter(cfg.FieldFilter, i, Field(v, i))
    \/ cfg.HideZeroValues /\ isZeroValue(Field(v, i))

DumpStruct ==
    /\ Running("dumpStruct")
    /\ LET v == Top.v
           numFields == NumField(v)
           i == Top.i
       IN  CASE Top.pc = "start" /\ i <= numFields /\ SkipField(S.config, v, i) ->
                    /\ stack' = Goto([Top EXCEPT !.i = @ + 1])
                    /\ UNCHANGED sess
             [] Top.pc = "start" /\ i <= numFields /\ ~SkipField(S.config, v, i) ->
                    /\ CanCall
                    /\ sess' = SetS(Colon(write(indent(IF Top.preambleDumped THEN S ELSE Open(S, v)),
                                                fields[i].name)))
                    /\ stack' = Call([Top EXCEPT !.pc = "after", !.preambleDumped = TRUE,
                                                 !.emitted = Append(@, i)],
                                     dumpValFrame(Field(v, i)))
             [] Top.pc = "after" ->
                    /\ sess' = SetS(newlineWithPointerNameComment(Comma(S, i, numFields)))
                    /\ stack' = Goto([Top EXCEPT !.pc = "start", !.i = @ + 1])
             [] Top.pc = "start" /\ i > numFields ->
                    /\ sess' = SetS(StructEvent(IF Top.preambleDumped
                                                THEN Close(S)
                                                ELSE write(dumpType(S, v), <<"{", "}">>), Top))
                    /\ stack' = Pop
    /\ UNCHANGED <<input, scans, ret, buf, sink, results, status, finished>>

-----------------------------------------------------------------------------
(* Options.Sdump and Options.Dump.                                         *)

SdumpCall ==
    /\ status = "idle" /\ Len(results) < calls /\ entry[Len(results) + 1] = "Sdump"
    /\ status' = "run"
    /\ stack' = <<[op |-> "Sdump", i |-> 1]>>
    /\ buf' = <<>>
    /\ sink' = NoSink
    /\ finished' = <<>>
    /\ UNCHANGED <<input, sess, scans, ret, results>>

(* An Sdump that writes the separator before every argument. *)
SdumpSeparatorFirst ==
    /\ Running("Sdump")
    /\ IF Top.i <= Len(args)
       THEN /\ buf' = buf \o opts.Separator
            /\ stack' = Call([Top EXCEPT !.i = @ + 1], newDumpStateFrame(args[Top.i], opts, TRUE))
            /\ UNCHANGED <<results, status>>
       ELSE /\ results' = Append(results, buf)
            /\ status' = "idle"
            /\ stack' = <<>>
            /\ UNCHANGED buf
    /\ UNCHANGED <<input, sess, scans, ret, sink, finished>>

Sdump ==
    /\ Running("Sdump")
    /\ IF Top.i <= Len(args)
       THEN /\ buf' = IF Top.i > 1 THEN buf \o opts.Separator ELSE buf
            /\ stack' = Call([Top EXCEPT !.i = @ + 1], newDumpStateFrame(args[Top.i], opts, TRUE))
            /\ UNCHANGED <<results, status>>
       ELSE /\ results' = Append(results, buf)
            /\ status' = "idle"
            /\ stack' = <<>>
            /\ UNCHANGED buf
    /\ UNCHANGED <<input, sess, scans, ret, sink, finished>>

DumpCall ==
    /\ status = "idle" /\ Len(results) < calls /\ entry[Len(results) + 1] = "Dump"
    /\ status' = "run"
    /\ stack' = <<[op |-> "Dump", i |-> 1]>>
    /\ buf' = <<>>
    /\ sink' = Stdout
    /\ finished' = <<>>
    /\ UNCHANGED <<input, sess, scans, ret, results>>

(* The loop of Dump, and after it os.Stdout.Write of the newline, whose    *)
(* error is dropped.                                                       *)
Dump ==
    /\ Running("Dump")
    /\ IF Top.i <= Len(args)
       THEN /\ stack' = Call([Top EXCEPT !.i = @ + 1],
                             [newDumpStateFrame(args[Top.i], opts, TRUE) EXCEPT !.sep = Top.i > 1])
            /\ UNCHANGED <<buf, sink, results, status>>
       ELSE /\ LET fails == sink.n + 1 = sink.failAt
                   out == IF fails THEN buf ELSE buf \o <<"\n">>
               IN  /\ buf' = out
                   /\ sink' = [sink EXCEPT !.n = @ + 1, !.failed = fails]
                   /\ results' = Append(results, out)
            /\ status' = "idle"
            /\ stack' = <<>>
    /\ UNCHANGED <<input, sess, scans, ret, finished>>

(* The panic of dumpState.write: nothing recovers it, the call and the     *)
(* program end.                                                            *)
Panic ==
    /\ status = "run" /\ Panicking
    /\ status' = "panic"
    /\ buf' = S.w
    /\ sink' = S.sink
    /\ stack' = <<>>
    /\ sess' = <<>>
    /\ scans' = <<>>
    /\ ret' = NoRet
    /\ UNCHANGED <<input, results, finished>>

Next ==
    \/ SdumpCall \/ Sdump \/ DumpCall \/ Dump \/ Panic \/ DumpCustom
    \/ MapReusedPointers \/ NewDumpState \/ DumpReturn
    \/ Consider \/ ConsiderMap \/ ConsiderChild
    \/ Sort \/ Less
    \/ DumpVal \/ DescendIntoPossiblePointer \/ DescendReturn \/ DumpPtr
    \/ DumpSlice \/ DumpMap \/ DumpStruct

-----------------------------------------------------------------------------
(* The inputs: the heaps, argument lists and options a call is made on.    *)

Refs == {RefV(a) : a \in Addr}
FieldDom == {NilV} \cup Refs
ElemDom == {IntV(1)} \cup Refs
IntKeys == <<IntV(10), IntV(2), IntV(1)>>
PtrKeys == <<RefV("t1"), RefV("t2")>>

(* The subsequences of s of length 1..MaxLen, as sequences. *)
SubSeqs(s) ==
    LET pick(I) == [i \in 1..Cardinality(I) |->
                       s[CHOOSE j \in I : Cardinality({x \in I : x < j}) = i - 1]]
    IN  {pick(I) : I \in {J \in SUBSET (1..Len(s)) : J # {} /\ Cardinality(J) <= MaxLen}}

Tuples(D, n) == [1..n -> D]

Obj(kind, keys, items) == [kind |-> kind, keys |-> keys, items |-> items]

Structs == {Obj("struct", <<>>, it) : it \in Tuples(FieldDom, 2)}
Arrays == {Obj("array", <<>>, it) : it \in UNION {Tuples(ElemDom, n) : n \in 0..MaxLen}}
Cells == {Obj("cell", <<>>, <<v>>) : v \in {RefV("t1"), RefV("t2")}}
Maps ==
    UNION {{Obj("map", ks, it) : it \in Tuples(ElemDom, Len(ks))} :
              ks \in SubSeqs(IntKeys) \cup SubSeqs(PtrKeys)}

RefCount(o) ==
    Cardinality({i \in 1..Len(o.items) : o.items[i].k = "ref"})
    + Cardinality({i \in 1..Len(o.keys) : o.keys[i].k = "ref"})

(* The objects reachable from the arguments. *)
Targets(o) ==
    {o.items[i].a : i \in {j \in 1..Len(o.items) : o.items[j].k = "ref"}}
    \cup {o.keys[i].a : i \in {j \in 1..Len(o.keys) : o.keys[j].k = "ref"}}

RECURSIVE ReachFrom(_, _, _)
ReachFrom(h, R, n) ==
    IF n = 0 THEN R ELSE ReachFrom(h, R \cup UNION {Targets(h[a]) : a \in R}, n - 1)

Reachable(h, as) == ReachFrom(h, {as[i].a : i \in 1..Len(as)}, Cardinality(Addr))

(* An object no argument reaches is not part of the input. *)
Absent(a) == IF a = "k" THEN Obj("array", <<>>, <<>>) ELSE Obj("struct", <<>>, <<NilV, NilV>>)

HeapsWith(refs) ==
    {h \in [Addr -> Structs \cup Arrays \cup Cells \cup Maps] :
        /\ h["t1"] \in Structs /\ h["t2"] \in Structs /\ h["k"] \notin Structs
        /\ RefCount(h["t1"]) + RefCount(h["t2"]) + RefCount(h["k"]) <= refs}

Heaps == HeapsWith(MaxRefs)

(* One root, passed one to MaxArgs times. *)
ArgLists == {[i \in 1..n |-> r] : r \in {RefV("t1"), RefV("k")}, n \in 1..MaxArgs}

ArgLists1 == {a \in ArgLists : Len(a) = 1}

(* The declared fields of T. *)
FieldsT == << [name |-> <<"A">>], [name |-> <<"B">>] >>

(* The declarations of T with exported, unexported and generated names. *)
FieldsAll ==
    {<< [name |-> a], [name |-> b] >> :
        a \in {<<"A">>, <<"a">>, <<"X", "X", "X", "_", "A">>},
        b \in {<<"B">>, <<"b">>, <<"X", "X", "X", "_", "B">>}}

(* Before the first call. *)
Start ==
    /\ stack = <<>>
    /\ sess = <<>>
    /\ scans = <<>>
    /\ ret = NoRet
    /\ buf = <<>>
    /\ sink = NoSink
    /\ results = <<>>
    /\ status = "idle"
    /\ finished = <<>>

Inputs(H, A, O, F, C) ==
    /\ heap \in H
    /\ args \in A
    /\ \A a \in Addr \ Reachable(heap, args) : heap[a] = Absent(a)
    /\ opts \in O
    /\ fields \in F
    /\ calls \in C

(* Sdump calls of values of types without hooks. *)
Plain ==
    /\ entry = [i \in 1..calls |-> "Sdump"]
    /\ failAt = 0
    /\ dumper = "none"
    /\ custom = <<>>

(* The call of the package documentation on a value with a custom dumper:  *)
(* Dump of a slice that holds a *T with a LitterDump method and an int, to *)
(* a standard output that is good or fails at a late Write call.           *)
HookedHeap ==
    [a \in Addr |-> IF a = "k" THEN Obj("array", <<>>, <<RefV("t1"), IntV(1)>>) ELSE Absent(a)]

Hooked ==
    /\ Inputs({HookedHeap}, {<<RefV("k")>>}, {Config}, {FieldsT}, {1})
    /\ entry = <<"Dump">>
    /\ failAt \in {0, MaxFail}
    /\ dumper = "*T"
    /\ custom = <<"x">>

InitWith(H, A, O, F, C) ==
    /\ (Inputs(H, A, O, F, C) /\ Plain) \/ Hooked
    /\ Start

Init == InitWith(Heaps, ArgLists, {Config}, {FieldsT}, {1})

Spec == Init /\ [][Next]_vars

(* The calls of the tests of DisablePointerReplacement: the zero Options   *)
(* with that one field set.                                                *)
OptionsDPR ==
    [Compact |-> FALSE, HidePrivateFields |-> FALSE, HideZeroValues |-> FALSE,
     FieldExclusions |-> FALSE, FieldFilter |-> "nil", Separator |-> <<>>,
     DisablePointerReplacement |-> TRUE, DumpFunc |-> "nil"]

(* The same call made NumCalls times. *)
InitTwice == InitWith(Heaps, ArgLists1, {Config}, {FieldsT}, {NumCalls})

SpecTwice == InitTwice /\ [][Next]_vars

(* The options that decide which fields dumpStruct writes. *)
OptionsFilter ==
    {[Config EXCEPT !.HidePrivateFields = h, !.FieldExclusions = x,
                    !.FieldFilter = f, !.HideZeroValues = z] :
        h \in BOOLEAN, x \in BOOLEAN, f \in {"nil", "first"}, z \in BOOLEAN}

InitFilter == InitWith(HeapsWith(FilterRefs), ArgLists1, OptionsFilter, FieldsAll, {1})

SpecFilter == InitFilter /\ [][Next]_vars

(* Calls of Sdump and of Dump, in every order, on a standard output that   *)
(* is good or fails at one of its first Write calls.                       *)
InitOut ==
    /\ \/ /\ Inputs(HeapsWith(FilterRefs), ArgLists, {Config}, {FieldsT}, {NumCalls})
          /\ entry \in [1..calls -> {"Sdump", "Dump"}]
          /\ failAt \in 0..MaxFail
          /\ dumper = "none"
          /\ custom = <<>>
       \/ Hooked
    /\ Start

SpecOut == InitOut /\ [][Next]_vars

(* Calls on values with and without a LitterDump method, on Options with   *)
(* and without a DumpFunc, compact or not.                                 *)
OptionsCustom ==
    {[Config EXCEPT !.DumpFunc = f, !.Compact = c] : f \in {"nil", "int", "ptr"}, c \in BOOLEAN}

(* The texts a hook writes: one line, a line that ends in a newline, two   *)
(* lines with a space before the newline, nothing.                         *)
CustomTexts == {<<"x">>, <<"x", "\n">>, <<"x", " ", "\n", "y">>, <<>>}

InitCustom ==
    /\ \/ /\ Inputs(HeapsWith(FilterRefs), ArgLists1, OptionsCustom, {FieldsT}, {1})
          /\ entry = <<"Sdump">>
          /\ failAt = 0
          /\ dumper \in {"none", "*T"}
          /\ custom \in CustomTexts
       \/ Hooked
    /\ Start

SpecCustom == InitCustom /\ [][Next]_vars

(* Compact and indented calls with every combination of the field filters. *)
OptionsCompact == {[o EXCEPT !.Compact = c] : o \in OptionsFilter, c \in BOOLEAN}

InitCompact == InitWith(HeapsWith(FilterRefs), ArgLists1, OptionsCompact, FieldsAll, {1})

SpecCompact == InitCompact /\ [][Next]_vars

InitDPR == InitWith(Heaps, ArgLists, {OptionsDPR}, {FieldsT}, {1})

SpecDPR == InitDPR /\ [][Next]_vars

-----------------------------------------------------------------------------
(* The input graph, read off the heap without running the program.         *)

IsRefTo(v, a) == v.k = "ref" /\ v.a = a

HasPtrKey == \E a \in Addr : \E i \in 1..Len(heap[a].keys) : heap[a].keys[i].k = "ref"

(* The reference occurrences of identity a held by object o: its fields,   *)
(* elements, map values and map keys.                                      *)
OccIn(o, a) ==
    Cardinality({i \in 1..Len(o.items) : IsRefTo(o.items[i], a)})
    + Cardinality({i \in 1..Len(o.keys) : IsRefTo(o.keys[i], a)})

ReachOf(r) == IF r.k = "ref" THEN ReachFrom(heap, {r.a}, Cardinality(Addr)) ELSE {}

RECURSIVE SumOcc(_, _)
SumOcc(B, a) ==
    IF B = {} THEN 0
    ELSE LET b == CHOOSE x \in B : TRUE IN OccIn(heap[b], a) + SumOcc(B \ {b}, a)

(* The occurrences of a in the graph of the value r: r itself and the      *)
(* occurrences held by the objects r reaches.                              *)
Occurrences(r, a) == (IF IsRefTo(r, a) THEN 1 ELSE 0) + SumOcc(ReachOf(r), a)

(* The paths from the value v to identity a, through at most fuel          *)
(* references: a path is a sequence of reference occurrences.  A graph of  *)
(* Cardinality(Addr) objects that has two paths to a has two of at most    *)
(* 2 * Cardinality(Addr) references.                                       *)
RECURSIVE Paths(_, _, _)
Paths(v, a, fuel) ==
    (IF IsRefTo(v, a) THEN 1 ELSE 0)
    + IF fuel = 0 \/ v.k # "ref" THEN 0
      ELSE LET kids == heap[v.a].keys \o heap[v.a].items
               F[i \in 0..Len(kids)] ==
                   IF i = 0 THEN 0 ELSE F[i - 1] + Paths(kids[i], a, fuel - 1)
           IN  F[Len(kids)]

PathCount(r, a) == Paths(r, a, 2 * Cardinality(Addr))

(* What a dumpState did for identity a. *)
Count(s, t, a) == Cardinality({i \in 1..Len(s.ev) : s.ev[i].t = t /\ s.ev[i].a = a})

(* dump has returned to newDumpState's caller-to-be: the rendering of the  *)
(* state's value is complete.                                              *)
SessionEnd == Running("newDumpState") /\ Top.pc = "end"

(* The call cannot take another step although it has not returned: the    *)
(* recursion has run through MaxStack frames.                              *)
Stuck == status = "run" /\ ~CanCall /\ ~ENABLED Next

-----------------------------------------------------------------------------
(* C1: under the default configuration a call on a finite graph with       *)
(* cycles, a cycle through a map key included, returns: the rendering      *)
(* never recurses without end.                                             *)
C1_TerminatesOnCycles == ~opts.DisablePointerReplacement => ~Stuck

(* C4: when the scan made for a dumpState has returned, its reused set is  *)
(* exactly the set of identities with two or more reference occurrences   *)
(* in the graph of the scanned value, map entries included.                *)
C4_ReusedIffTwoOccurrences ==
    (Running("newDumpState") /\ Top.pc = "state")
        => PV.reusedPointers = {a \in Addr : Occurrences(Top.v, a) >= 2}

(* C2: under the default configuration, in a completed rendering every     *)
(* identity reachable by two or more paths has its body rendered exactly   *)
(* once, and a bare label of an identity is written if and only if the     *)
(* annotation of that label is written.  Stated for graphs without         *)
(* reference-typed map keys, which C4 already fails.                       *)
C2_AliasingComplete ==
    (SessionEnd /\ ~S.config.DisablePointerReplacement /\ ~HasPtrKey)
        => \A a \in Addr :
              /\ PathCount(S.root, a) >= 2 => Count(S, "body", a) = 1
              /\ Count(S, "bare", a) > 0 <=> Count(S, "annot", a) > 0

(* C3: under the default configuration an identity reachable by exactly    *)
(* one path is not in the reused set, gets no label, no annotation and no  *)
(* bare label, and its body is rendered once, at its one occurrence.       *)
C3_UniqueNotAliased ==
    (sess # <<>> /\ ~S.config.DisablePointerReplacement)
        => \A a \in Addr :
              PathCount(S.root, a) = 1
                 => /\ a \notin S.pointers
                    /\ S.labels[a] = -1
                    /\ Count(S, "annot", a) = 0 /\ Count(S, "bare", a) = 0
                    /\ Count(S, "body", a) <= 1
                    /\ SessionEnd => Count(S, "body", a) = 1

(* A rendering is complete in which one identity has a single path and     *)
(* its body inline, next to another identity that is labelled.             *)
C3_Witness ==
    /\ SessionEnd /\ ~S.config.DisablePointerReplacement
    /\ \E a, b \in Addr :
          /\ PathCount(S.root, a) = 1 /\ Count(S, "body", a) = 1
          /\ Count(S, "bare", b) > 0 /\ Count(S, "annot", b) > 0

(* C5: with DisablePointerReplacement a call on a finite cyclic graph      *)
(* returns, also when a node of a cycle holds two references to the same   *)
(* ancestor.  Stated for graphs without reference-typed map keys, where    *)
(* every cycle runs through fields, elements and map values.               *)
C5_TerminatesWithoutReplacement ==
    (opts.DisablePointerReplacement /\ ~HasPtrKey) => ~Stuck

(* C6: with DisablePointerReplacement the gate writes a bare label only    *)
(* for an occurrence whose identity an enclosing call of the same          *)
(* rendering is rendering; every other occurrence gets its body.           *)
C6_BareLabelOnlyForAncestor ==
    (sess # <<>> /\ S.config.DisablePointerReplacement)
        => \A i \in 1..Len(S.ev) : S.ev[i].t = "bare" => S.ev[i].anc

(* A rendering is complete in which a shared identity that is on a cycle   *)
(* had its body rendered twice and a bare label inside.                    *)
C6_Witness ==
    /\ SessionEnd /\ S.config.DisablePointerReplacement
    /\ \E a \in Addr :
          /\ Count(S, "body", a) >= 2
          /\ \E i \in 1..Len(S.ev) : S.ev[i].t = "bare" /\ S.ev[i].a = a /\ S.ev[i].anc

(* C8: dumpMap writes the entries of a map in ascending order of the text  *)
(* that Less rendered for each key, whatever order the runtime enumerated  *)
(* the keys in.                                                            *)
C8_MapOrderCanonical ==
    \A n \in 1..Len(sess) : \A e \in 1..Len(sess[n].ev) :
        sess[n].ev[e].t = "map"
           => \A i \in 1..(Len(sess[n].ev[e].emitted) - 1) :
                 ~LexLess(sess[n].ev[e].emitted[i + 1], sess[n].ev[e].emitted[i])

(* A map with the keys 10 and 2 has been written: 10 first, as text. *)
C8_Witness ==
    /\ sess # <<>>
    /\ \E e \in 1..Len(S.ev) :
          S.ev[e].t = "map" /\ S.ev[e].emitted = << <<"1", "0">>, <<"2">> >>

(* C7: the same Sdump call, made again on the same graph with the same     *)
(* options, returns the same text, whatever order the runtime enumerates   *)
(* the map keys in.                                                        *)
C7_Deterministic == \A i, j \in 1..Len(results) : results[i] = results[j]

(* C9, as the specification states it: when one reference is passed as     *)
(* two arguments of a call, the second argument is written as the bare     *)
(* label that the first argument's body is annotated with.                 *)
C9_AliasedAcrossArguments ==
    (status = "idle" /\ Len(finished) >= 2 /\ isPointerValue(args[1]) /\ args[1] = args[2])
        => /\ Count(finished[2], "bare", args[2].a) = 1
           /\ Count(finished[2], "body", args[2].a) = 0
           /\ Count(finished[1], "annot", args[1].a) = 1

(* C9, as the code has it: every argument is rendered by a dumpState of    *)
(* its own, made from a scan of that argument alone.  Its reused set       *)
(* holds only identities that occur twice in the argument's own graph, and *)
(* the argument's reference is written with its body, never as a bare      *)
(* label, also when an earlier argument was the same reference.            *)
C9_AliasedPerArgument ==
    \A i \in 1..Len(finished) :
        /\ finished[i].root = args[i]
        /\ finished[i].pointers \subseteq {a \in Addr : Occurrences(args[i], a) >= 2}
        /\ isPointerValue(args[i])
              => LET g == SelectSeq(finished[i].ev, LAMBDA e : e.t \in {"body", "bare"})
                 IN  g # <<>> /\ g[1].t = "body" /\ g[1].a = args[i].a

(* A call has returned that was given the same reference twice. *)
C9_Witness ==
    /\ status = "idle" /\ Len(finished) >= 2
    /\ isPointerValue(args[1]) /\ args[1] = args[2]
    /\ Count(finished[2], "body", args[2].a) >= 1

(* C10, the exclusion rules read off the declaration, the options and the  *)
(* field's value.                                                          *)
C10_Omitted(cfg, a, i) ==
    \/ cfg.HidePrivateFields /\ Head(fields[i].name) \in {"a", "b"}
    \/ cfg.FieldExclusions /\ Head(fields[i].name) = "X"
    \/ cfg.FieldFilter = "first" /\ i # 1
    \/ cfg.HideZeroValues /\ heap[a].items[i].k = "nil"

(* C10: dumpStruct writes exactly the fields that no active exclusion      *)
(* rule applies to, in declaration order, and writes a struct of which     *)
(* every field is omitted as the type name followed by {}.                 *)
C10_FilterComposition ==
    \A n \in 1..Len(sess) : \A e \in 1..Len(sess[n].ev) :
        LET ev == sess[n].ev[e]
            kept == SelectSeq(<<1, 2>>, LAMBDA i : ~C10_Omitted(sess[n].config, ev.a, i))
        IN  ev.t = "struct"
               => /\ ev.emitted = kept
                  /\ kept = <<>> => ev.text = <<"T", "{", "}">>

(* A struct was written with one field omitted by a rule and one kept, and *)
(* another with every field omitted.                                       *)
C10_Witness ==
    /\ sess # <<>>
    /\ \E e \in 1..Len(S.ev) :
          S.ev[e].t = "struct" /\ S.ev[e].emitted = <<2>> /\ S.config.HideZeroValues
    /\ \E e \in 1..Len(S.ev) : S.ev[e].t = "struct" /\ S.ev[e].emitted = <<>>

(* The pointerFor calls the gate made so far in dumpState s, in order. *)
Queries(s) == SelectSeq(s.ev, LAMBDA e : e.t = "query")

C14_ScanVisitBound ==
    /\ \A n \in 1..Len(scans) : \A a \in Addr :
          /\ scans[n].descents[a] <= 1
          /\ scans[n].visits[a] <= Occurrences(scans[n].root, a)
    /\ ~(Stuck /\ scans # <<>>)

(* The occurrences the scanner can meet: the value itself, fields,         *)
(* elements, pointees and map values of the objects it reaches that way.   *)
ValueTargets(o) == {o.items[i].a : i \in {j \in 1..Len(o.items) : o.items[j].k = "ref"}}

RECURSIVE ReachValues(_, _)
ReachValues(R, n) ==
    IF n = 0 THEN R ELSE ReachValues(R \cup UNION {ValueTargets(heap[a]) : a \in R}, n - 1)

RECURSIVE SumValueOcc(_, _)
SumValueOcc(B, a) ==
    IF B = {} THEN 0
    ELSE LET b == CHOOSE x \in B : TRUE
         IN  Cardinality({i \in 1..Len(heap[b].items) : IsRefTo(heap[b].items[i], a)})
             + SumValueOcc(B \ {b}, a)

ValueOccurrences(r, a) ==
    (IF IsRefTo(r, a) THEN 1 ELSE 0)
    + SumValueOcc(IF r.k = "ref" THEN ReachValues({r.a}, Cardinality(Addr)) ELSE {}, a)

LiveAncestors ==
    LET I == {i \in 1..Len(stack) : stack[i].op = "newDumpState" /\ stack[i].pc = "end"}
        base == CHOOSE i \in I : \A j \in I : j <= i
        J == {i \in (base + 1)..Len(stack) : stack[i].op = "newDumpState"}
        lim == IF J = {} THEN Len(stack) + 1 ELSE CHOOSE i \in J : \A j \in J : i <= j
    IN  {Pointer(stack[i].v) :
            i \in {j \in (base + 1)..(lim - 1) :
                      stack[j].op = "descend" /\ stack[j].pc = "defer" /\ isPointerValue(stack[j].v)}}

(* C18: parentPointers holds exactly the identities that enclosing         *)
(* descendIntoPossiblePointer calls of the dumpState are rendering, and is *)
(* empty when dump returns.                                                *)
C18_ParentPointersAreAncestors ==
    sess # <<>> => S.parentPointers = LiveAncestors

(* C20: the gate never assigns currentPointer while a label is pending,    *)
(* and no label is pending when dump returns.                              *)
C20_PendingLabelWritten ==
    sess # <<>> =>
        /\ \A e \in 1..Len(S.ev) : S.ev[e].t = "pend" => ~S.ev[e].lost
        /\ SessionEnd => S.currentPointer = NoAddr

(* What state.dump of the i-th argument of the last call wrote. *)
Segment(i) == SubSeq(finished[i].w, finished[i].start + 1, Len(finished[i].w))

RECURSIVE Joined(_)
Joined(n) ==
    IF n = 0 THEN <<>>
    ELSE IF n = 1 THEN Segment(1)
    ELSE Joined(n - 1) \o opts.Separator \o Segment(n)

(* C12: what a call returned or wrote is the renderings of its arguments,  *)
(* in argument order, with the Separator between consecutive ones and      *)
(* nowhere else, and for Dump one newline after them; an argument passed   *)
(* twice is rendered to the same text both times, and Dump writes the text *)
(* Sdump returns and a newline.  (Graphs with reference-typed map keys are *)
(* left out of the comparisons: C7.  Standard output is good.)             *)
C12_ArgumentSeparation ==
    (status = "idle" /\ results # <<>> /\ failAt = 0)
        => LET n == Len(results)
           IN  /\ Len(finished) = Len(args)
               /\ \A i \in 1..Len(args) : finished[i].root = args[i]
               /\ results[n] = IF entry[n] = "Dump"
                                THEN Joined(Len(args)) \o <<"\n">>
                                ELSE Joined(Len(args))
               /\ ~HasPtrKey =>
                     /\ \A i, j \in 1..Len(args) : args[i] = args[j] => Segment(i) = Segment(j)
                     /\ \A i, j \in 1..n :
                           (entry[i] = "Sdump" /\ entry[j] = "Dump")
                               => results[j] = results[i] \o <<"\n">>

(* Sdump and then Dump have been called on two arguments. *)
C12_Witness ==
    /\ status = "idle" /\ Len(results) = 2 /\ failAt = 0
    /\ entry[1] = "Sdump" /\ entry[2] = "Dump"
    /\ Len(args) = 2 /\ opts.Separator # <<>>

(* C13: when a Write call of the sink has failed, the call has ended in a  *)
(* panic.                                                                  *)
C13_WriteFailureFatal ==
    sink.failed => status = "panic"

(* The calls of the hooks and of the kind switch, in order. *)
Hooks(s) == SelectSeq(s.ev, LAMBDA e : e.t \in {"func", "dumper", "kind"})

RECURSIVE CountOf(_, _)
CountOf(c, t) == IF t = <<>> THEN 0 ELSE (IF Head(t) = c THEN 1 ELSE 0) + CountOf(c, Tail(t))

HasPrefix(t, p) == Len(t) >= Len(p) /\ SubSeq(t, 1, Len(p)) = p

(* C16: with a DumpFunc set, LitterDump and the kind switch run only for a *)
(* value DumpFunc has just returned false for; what dumpVal writes for a   *)
(* value DumpFunc returned true for starts with the type name; and the     *)
(* text holds what DumpFunc wrote once per call that returned true, so     *)
(* what it wrote in the other calls is gone.                               *)
C16_DumpFuncFirstRefusal ==
    (sess # <<>> /\ S.config.DumpFunc # "nil" /\ ~S.sink.failed)
        => LET q == Hooks(S)
               accepted == {i \in 1..Len(q) : q[i].t = "func" /\ q[i].first}
           IN  /\ \A i \in 1..Len(q) :
                     q[i].t \in {"dumper", "kind"}
                         => i > 1 /\ q[i - 1].t = "func" /\ ~q[i - 1].first /\ q[i - 1].a = q[i].a
               /\ \A i \in accepted :
                     HasPrefix(q[i].text, IF q[i].a = NoAddr THEN <<"i", "n", "t">> ELSE <<"*", "T">>)
               /\ CountOf("!", SubSeq(S.w, S.start + 1, Len(S.w))) = Cardinality(accepted)

(* DumpFunc has returned true for one value and false for a value whose    *)
(* LitterDump then ran.                                                    *)
C16_Witness ==
    /\ sess # <<>> /\ S.config.DumpFunc # "nil"
    /\ \E i, j \in 1..Len(S.ev) :
          /\ S.ev[i].t = "func" /\ S.ev[i].first
          /\ S.ev[j].t = "dumper"

(* The text C17 describes for a captured text b at a nesting depth: the    *)
(* lines of b without their trailing spaces, the first as it is, the       *)
(* others after a newline and the indentation, no line for what follows a  *)
(* final newline.                                                          *)
RECURSIVE TrimSpaces(_)
TrimSpaces(line) ==
    IF line # <<>> /\ line[Len(line)] = " " THEN TrimSpaces(SubSeq(line, 1, Len(line) - 1)) ELSE line

RECURSIVE Reindented(_, _, _)
Reindented(b, depth, firstLine) ==
    LET n == IndexByte(b)
        line == TrimSpaces(IF n = 0 THEN b ELSE SubSeq(b, 1, n - 1))
        rest == SubSeq(b, n + 1, Len(b))
        out == (IF firstLine THEN <<>> ELSE Repeat(<<" ", " ">>, depth)) \o line
    IN  IF n = 0 \/ rest = <<>> THEN out
        ELSE out \o <<"\n">> \o Reindented(rest, depth, FALSE)

(* C17: in non-compact mode, with no label pending, dumpCustom writes the  *)
(* type name and the captured text re-indented to the current depth, with  *)
(* no empty or indentation-only last line.                                 *)
C17_CustomReindented ==
    (sess # <<>> /\ ~S.config.Compact /\ ~S.sink.failed)
        => \A i \in 1..Len(S.ev) :
              (S.ev[i].t \in {"func", "dumper"} /\ S.ev[i].first /\ ~S.ev[i].lost)
                  => S.ev[i].text =
                        (IF S.ev[i].a = NoAddr THEN <<"i", "n", "t">> ELSE <<"*", "T">>)
                        \o Reindented(S.ev[i].emitted, S.ev[i].id, TRUE)

(* The commas of a rendered struct that separate its own fields: those     *)
(* inside its braces and inside no inner braces.                           *)
RECURSIVE OwnCommas(_, _)
OwnCommas(t, level) ==
    IF t = <<>> THEN 0
    ELSE CASE Head(t) = "{" -> OwnCommas(Tail(t), level + 1)
           [] Head(t) = "}" -> OwnCommas(Tail(t), level - 1)
           [] Head(t) = "," /\ level = 1 -> 1 + OwnCommas(Tail(t), level)
           [] OTHER -> OwnCommas(Tail(t), level)

(* C19: a struct rendered in compact mode has one comma between every two  *)
(* of the fields it emits and none after the last, whatever the filters    *)
(* hide; in non-compact mode it has a comma after every emitted field.     *)
C19_CompactSeparators ==
    (sess # <<>> /\ ~S.sink.failed)
        => \A i \in 1..Len(S.ev) :
              (S.ev[i].t = "struct" /\ S.ev[i].emitted # <<>>)
                  => OwnCommas(S.ev[i].text, 0) =
                        IF S.config.Compact THEN Len(S.ev[i].emitted) - 1 ELSE Len(S.ev[i].emitted)

(* The calls of dumpSlice, dumpMap and dumpStruct of the innermost         *)
(* dumpState that have written their opening brace and not yet their       *)
(* closing one, read off the call stack.                                   *)
OpenBodies ==
    LET I == {i \in 1..Len(stack) : stack[i].op = "newDumpState" /\ stack[i].pc = "end"}
        base == CHOOSE i \in I : \A j \in I : j <= i
        J == {i \in (base + 1)..Len(stack) : stack[i].op = "newDumpState"}
        lim == IF J = {} THEN Len(stack) + 1 ELSE CHOOSE i \in J : \A j \in J : i <= j
    IN  {i \in (base + 1)..(lim - 1) :
            \/ stack[i].op \in {"dumpSlice", "dumpMap"} /\ stack[i].pc # "start"
            \/ stack[i].op = "dumpStruct" /\ stack[i].preambleDumped}

(* C21: while no write has failed, depth is the number of dumpSlice,       *)
(* dumpMap and dumpStruct calls that are between their opening and their   *)
(* closing brace.  A dumpVal call that has returned has left the stack as  *)
(* it found it, so depth is then what it was before the call; it is never  *)
(* negative, and it is 0 when dump returns.                                *)
C21_DepthBalance ==
    (sess # <<>> /\ ~S.sink.failed)
        => /\ S.depth = Cardinality(OpenBodies)
           /\ S.depth >= 0
           /\ SessionEnd => S.depth = 0

(* dump has returned from a slice or map with entries in which a struct    *)
(* was rendered of which no field survived the filters.                    *)
C21_Witness ==
    /\ SessionEnd /\ ~S.sink.failed
    /\ Kind(S.root) \in {"Slice", "Map"} /\ Len_(S.root) > 0
    /\ \E i \in 1..Len(S.ev) : S.ev[i].t = "struct" /\ S.ev[i].emitted = <<>>

====
